---- MODULE Spec2Model ----
(***************************************************************************)
(* Model of snake.py: the four path searches of SearchBasedPlayer (bfs,    *)
(* dfs, dijkstra, astar), the translation of a path into a queue of        *)
(* directions (positions_to_directions), and the game loop SnakeGame.run   *)
(* with the Snake, Food and Obstacle it drives.                            *)
(*                                                                         *)
(* A Position is the pair <<x, y>>, a Direction the pair <<dx, dy>> of its *)
(* value.  Paths, the snake's positions and direction queues are           *)
(* sequences, Python sets are sets.                                        *)
(***************************************************************************)
EXTENDS Integers, Sequences, FiniteSets, TLC

(***************************************************************************)
(* Bounds.  The program plays on a 20 x 20 grid (GRID_WIDTH = WIDTH //     *)
(* GRID_SIDE) with 40 obstacles; the model keeps the code and scales the   *)
(* grid, the number of obstacles and the snake's body down.                *)
(***************************************************************************)
GRID_WIDTH == 3

GRID_HEIGHT == 3

\* largest number of cells in snake.positions of a drawn input
MaxBody == 4

\* largest number of obstacles of a drawn input
MaxObstacles == 1

\* dijkstra and astar search an unbounded plane: the model follows one call
\* for at most this many iterations of its while loop
MaxIterations == 450

\* the paths dijkstra's result is compared with lie in the grid widened by
\* this many cells on every side
Margin == 1

\* longest walk handed to positions_to_directions in TranslatorSpec
MaxWalk == 4

\* local obstacle_cost of dijkstra and astar
obstacle_cost == 10

(***************************************************************************)
(* Direction                                                               *)
(***************************************************************************)
UP == <<0, -1>>

DOWN == <<0, 1>>

LEFT == <<-1, 0>>

RIGHT == <<1, 0>>

\* "for direction in Direction": the members in definition order
Direction == <<UP, DOWN, LEFT, RIGHT>>

DirectionSet == {Direction[i] : i \in 1..Len(Direction)}

reverse(d) == <<d[1] * (-1), d[2] * (-1)>>

(***************************************************************************)
(* Position                                                                *)
(***************************************************************************)
\* TRUE when the position is OUTSIDE the width x height grid
check_bounds(p, width, height) ==
    (p[1] >= width) \/ (p[1] < 0) \/ (p[2] >= height) \/ (p[2] < 0)

\* Position(current.x + direction.value[0], current.y + direction.value[1])
next_pos(current, d) == <<current[1] + d[1], current[2] + d[2]>>

Cells == (0..(GRID_WIDTH - 1)) \X (0..(GRID_HEIGHT - 1))

\* Snake.reset puts the snake on one fixed cell, (12, 12) of the 20 x 20 grid
ResetPos == <<GRID_WIDTH \div 2, GRID_HEIGHT \div 2>>

\* GameNode() starts every food and obstacle on Position(0, 0)
NodeOrigin == <<0, 0>>

SeqToSet(s) == {s[i] : i \in 1..Len(s)}

\* snake.positions[1:]
Tail1(s) == IF Len(s) <= 1 THEN <<>> ELSE SubSeq(s, 2, Len(s))

Abs(n) == IF n < 0 THEN -n ELSE n

(***************************************************************************)
(* queue.PriorityQueue of tuples (priority, counter, position, path): get  *)
(* returns the smallest tuple.  The queue is kept as the sequence of its   *)
(* entries in increasing tuple order; put inserts at the entry's place.    *)
(***************************************************************************)
\* tuple comparison on the first two components; the counter is unique
EntryLess(a, b) ==
    (a.priority < b.priority) \/ (a.priority = b.priority /\ a.counter < b.counter)

RECURSIVE InsertionPoint(_, _, _, _)
\* number of entries of pq[lo+1..hi] ... that sort before e, by bisection
InsertionPoint(pq, e, lo, hi) ==
    IF lo >= hi THEN lo
    ELSE LET mid == (lo + hi) \div 2
         IN  IF EntryLess(pq[mid + 1], e)
             THEN InsertionPoint(pq, e, mid + 1, hi)
             ELSE InsertionPoint(pq, e, lo, mid)

PqPut(pq, e) ==
    LET k == InsertionPoint(pq, e, 0, Len(pq))
    IN  SubSeq(pq, 1, k) \o <<e>> \o SubSeq(pq, k + 1, Len(pq))

Entry(priority, counter, pos, path) ==
    [priority |-> priority, counter |-> counter, pos |-> pos, path |-> path]

(***************************************************************************)
(* A search call is followed one iteration of its while loop at a time.    *)
(* Its state s holds the locals of the call (frontier, counter, visited)   *)
(* and, once the call has returned, the returned path:                     *)
(*   s.returned  the call has executed a return statement                  *)
(*   s.path      the returned path (<<>> until then)                       *)
(* env holds the arguments: goal, snake (set of snake.positions), blocked  *)
(* (set of snake.positions[1:]) and obstacles.                             *)
(***************************************************************************)
Env(goal, snake_positions, obstacle_positions) ==
    [goal |-> goal, snake |-> SeqToSet(snake_positions),
     blocked |-> SeqToSet(Tail1(snake_positions)), obstacles |-> obstacle_positions]

Return(s, path) == [s EXCEPT !.returned = TRUE, !.path = path]

\* mutant of EnterCost: an obstacle costs what a free cell costs
EnterCostUnit(np, env) == 1

\* "obstacle_cost if next_pos in obstacles else 1" of dijkstra and astar
EnterCost(np, env) == IF np \in env.obstacles THEN obstacle_cost ELSE 1

\* mutant of Enterable: the snake's body is not tested
EnterableThroughBody(s, np, env) ==
    /\ ~check_bounds(np, GRID_WIDTH, GRID_HEIGHT)
    /\ np \notin s.visited
    /\ np \notin env.obstacles

\* mutant of Enterable: the obstacles are not tested
EnterableOntoObstacles(s, np, env) ==
    /\ ~check_bounds(np, GRID_WIDTH, GRID_HEIGHT)
    /\ np \notin s.visited
    /\ np \notin env.blocked

\* the test bfs and dfs apply to a neighbour before they push it
Enterable(s, np, env) ==
    /\ ~check_bounds(np, GRID_WIDTH, GRID_HEIGHT)
    /\ np \notin s.visited
    /\ np \notin env.obstacles
    /\ np \notin env.blocked

\* bfs and dfs finalize only cells of the grid, each once, and push at most one
\* entry per direction for each: their loops end within this many iterations
GridIterations == Len(Direction) * GRID_WIDTH * GRID_HEIGHT + 2

(***************************************************************************)
(* bfs: queue is a deque of (position, path), popleft takes its head.  The *)
(* snake it reads is the module-level snake, the object search_path got.   *)
(***************************************************************************)
RECURSIVE BfsNeighbours(_, _, _, _, _)
\* the "for direction in Direction" loop of bfs from the i-th member on
BfsNeighbours(s, i, current, path, env) ==
    IF i > Len(Direction) THEN s
    ELSE LET np == next_pos(current, Direction[i])
         IN  IF Enterable(s, np, env)
             THEN BfsNeighbours([s EXCEPT !.queue = Append(@, [pos |-> np,
                                                               path |-> Append(path, np)])],
                                i + 1, current, path, env)
             ELSE BfsNeighbours(s, i + 1, current, path, env)

\* mutant of BfsStep: queue.pop() in place of queue.popleft()
BfsStepLifo(s, env) ==
    IF s.queue = <<>> THEN Return(s, <<>>)
    ELSE LET e == s.queue[Len(s.queue)]
             popped == [s EXCEPT !.queue = SubSeq(@, 1, Len(@) - 1)]
         IN  IF e.pos \in s.visited THEN popped
             ELSE IF e.pos = env.goal THEN Return(popped, e.path)
             ELSE BfsNeighbours([popped EXCEPT !.visited = @ \cup {e.pos}],
                                1, e.pos, e.path, env)

\* one iteration of "while queue"; return [] once the queue is empty
BfsStep(s, env) ==
    IF s.queue = <<>> THEN Return(s, <<>>)
    ELSE LET e == Head(s.queue)
             popped == [s EXCEPT !.queue = Tail(@)]
         IN  IF e.pos \in s.visited THEN popped
             ELSE IF e.pos = env.goal THEN Return(popped, e.path)
             ELSE BfsNeighbours([popped EXCEPT !.visited = @ \cup {e.pos}],
                                1, e.pos, e.path, env)

RECURSIVE BfsRun(_, _, _)
\* at most n iterations of the loop, stopping when the call returns
BfsRun(s, env, n) ==
    IF s.returned \/ n <= 0 THEN s
    ELSE IF n = 1 THEN BfsStep(s, env)
    ELSE BfsRun(BfsRun(s, env, n \div 2), env, n - (n \div 2))

BfsStart(start) ==
    [queue |-> <<[pos |-> start, path |-> <<start>>]>>, visited |-> {},
     returned |-> FALSE, path |-> <<>>]

bfs(start, goal, snake_positions, obstacle_positions) ==
    BfsRun(BfsStart(start), Env(goal, snake_positions, obstacle_positions),
           GridIterations)

(***************************************************************************)
(* dfs: stack is a list of (position, path), pop takes its last element.   *)
(***************************************************************************)
RECURSIVE DfsNeighbours(_, _, _, _, _)
\* the "for direction in Direction" loop of dfs from the i-th member on
DfsNeighbours(s, i, current, path, env) ==
    IF i > Len(Direction) THEN s
    ELSE LET np == next_pos(current, Direction[i])
         IN  IF Enterable(s, np, env)
             THEN DfsNeighbours([s EXCEPT !.stack = Append(@, [pos |-> np,
                                                               path |-> Append(path, np)])],
                                i + 1, current, path, env)
             ELSE DfsNeighbours(s, i + 1, current, path, env)

\* one iteration of "while stack"; return [] once the stack is empty
DfsStep(s, env) ==
    IF s.stack = <<>> THEN Return(s, <<>>)
    ELSE LET e == s.stack[Len(s.stack)]
             popped == [s EXCEPT !.stack = SubSeq(@, 1, Len(@) - 1)]
         IN  IF e.pos \in s.visited THEN popped
             ELSE LET marked == [popped EXCEPT !.visited = @ \cup {e.pos}]
                  IN  IF e.pos = env.goal THEN Return(marked, e.path)
                      ELSE DfsNeighbours(marked, 1, e.pos, e.path, env)

RECURSIVE DfsRun(_, _, _)
\* at most n iterations of the loop, stopping when the call returns
DfsRun(s, env, n) ==
    IF s.returned \/ n <= 0 THEN s
    ELSE IF n = 1 THEN DfsStep(s, env)
    ELSE DfsRun(DfsRun(s, env, n \div 2), env, n - (n \div 2))

DfsStart(start) ==
    [stack |-> <<[pos |-> start, path |-> <<start>>]>>, visited |-> {},
     returned |-> FALSE, path |-> <<>>]

dfs(start, goal, snake_positions, obstacle_positions) ==
    DfsRun(DfsStart(start), Env(goal, snake_positions, obstacle_positions),
           GridIterations)

(***************************************************************************)
(* dijkstra                                                                *)
(***************************************************************************)
RECURSIVE DijkstraNeighboursSameCounter(_, _, _, _, _, _)
\* mutant of DijkstraNeighbours: "counter += 1" is left out
DijkstraNeighboursSameCounter(s, i, cost, current, path, env) ==
    IF i > Len(Direction) THEN s
    ELSE LET np == next_pos(current, Direction[i])
         IN  IF np \in s.visited \/ np \in env.snake
             THEN DijkstraNeighboursSameCounter(s, i + 1, cost, current, path, env)
             ELSE LET new_cost == cost + EnterCost(np, env)
                  IN  DijkstraNeighboursSameCounter(
                          [s EXCEPT !.pq = PqPut(@, Entry(new_cost, s.counter, np,
                                                          Append(path, np)))],
                          i + 1, cost, current, path, env)

RECURSIVE DijkstraNeighbours(_, _, _, _, _, _)
\* the "for direction in Direction" loop of dijkstra from the i-th member on
DijkstraNeighbours(s, i, cost, current, path, env) ==
    IF i > Len(Direction) THEN s
    ELSE LET np == next_pos(current, Direction[i])
         IN  IF np \in s.visited \/ np \in env.snake
             THEN DijkstraNeighbours(s, i + 1, cost, current, path, env)
             ELSE LET new_cost == cost + EnterCost(np, env)
                      counter == s.counter + 1
                  IN  DijkstraNeighbours(
                          [s EXCEPT !.counter = counter,
                                    !.pq = PqPut(@, Entry(new_cost, counter, np,
                                                          Append(path, np)))],
                          i + 1, cost, current, path, env)

\* one iteration of "while not pq.empty()"; return [] once the queue is empty
DijkstraStep(s, env) ==
    IF s.pq = <<>> THEN Return(s, <<>>)
    ELSE LET e == Head(s.pq)
             popped == [s EXCEPT !.pq = Tail(@)]
         IN  IF e.pos \in s.visited THEN popped
             ELSE LET marked == [popped EXCEPT !.visited = @ \cup {e.pos}]
                  IN  IF e.pos = env.goal THEN Return(marked, e.path)
                      ELSE DijkstraNeighbours(marked, 1, e.priority, e.pos, e.path, env)

RECURSIVE DijkstraRun(_, _, _)
\* at most n iterations of the loop, stopping when the call returns
DijkstraRun(s, env, n) ==
    IF s.returned \/ n <= 0 THEN s
    ELSE IF n = 1 THEN DijkstraStep(s, env)
    ELSE DijkstraRun(DijkstraRun(s, env, n \div 2), env, n - (n \div 2))

\* mutant of DijkstraStart: the first entry's path lacks the start
DijkstraStartEmptyPath(start) ==
    [pq |-> <<Entry(0, 0, start, <<>>)>>, counter |-> 0, visited |-> {},
     returned |-> FALSE, path |-> <<>>]

DijkstraStart(start) ==
    [pq |-> <<Entry(0, 0, start, <<start>>)>>, counter |-> 0, visited |-> {},
     returned |-> FALSE, path |-> <<>>]

dijkstra(start, goal, snake_positions, obstacle_positions) ==
    DijkstraRun(DijkstraStart(start), Env(goal, snake_positions, obstacle_positions),
                MaxIterations)

(***************************************************************************)
(* astar: cost_so_far is a dict, here a function on the positions it has a *)
(* key for.                                                                *)
(***************************************************************************)
\* mutant of heuristic: an estimate above the cost that remains
heuristicOverestimate(a, b) == obstacle_cost * (Abs(a[1] - b[1]) + Abs(a[2] - b[2]))

\* mutant of heuristic: the distance is not taken to b
heuristicToOrigin(a, b) == Abs(a[1]) + Abs(a[2])

\* Manhattan distance
heuristic(a, b) == Abs(a[1] - b[1]) + Abs(a[2] - b[2])

RECURSIVE AstarNeighboursFirstCost(_, _, _, _, _)
\* mutant of AstarNeighbours: a cheaper way to a known position is queued but
\* "cost_so_far[next_pos] = new_cost" is left out for it
AstarNeighboursFirstCost(s, i, current, path, env) ==
    IF i > Len(Direction) THEN s
    ELSE LET np == next_pos(current, Direction[i])
         IN  IF np \in s.visited \/ np \in env.snake
             THEN AstarNeighboursFirstCost(s, i + 1, current, path, env)
             ELSE LET new_cost == s.cost_so_far[current] + EnterCost(np, env)
                      known == np \in DOMAIN s.cost_so_far
                  IN  IF ~known \/ new_cost < s.cost_so_far[np]
                      THEN LET priority == new_cost + heuristic(np, env.goal)
                               counter == s.counter + 1
                           IN  AstarNeighboursFirstCost(
                                   [s EXCEPT !.cost_so_far = IF known THEN @
                                                 ELSE (np :> new_cost) @@ @,
                                             !.counter = counter,
                                             !.pq = PqPut(@, Entry(priority, counter, np,
                                                                   Append(path, np)))],
                                   i + 1, current, path, env)
                      ELSE AstarNeighboursFirstCost(s, i + 1, current, path, env)

RECURSIVE AstarNeighbours(_, _, _, _, _)
\* the "for direction in Direction" loop of astar from the i-th member on
AstarNeighbours(s, i, current, path, env) ==
    IF i > Len(Direction) THEN s
    ELSE LET np == next_pos(current, Direction[i])
         IN  IF np \in s.visited \/ np \in env.snake
             THEN AstarNeighbours(s, i + 1, current, path, env)
             ELSE LET new_cost == s.cost_so_far[current] + EnterCost(np, env)
                      known == np \in DOMAIN s.cost_so_far
                  IN  IF ~known \/ new_cost < s.cost_so_far[np]
                      THEN LET priority == new_cost + heuristic(np, env.goal)
                               counter == s.counter + 1
                           IN  AstarNeighbours(
                                   [s EXCEPT !.cost_so_far = IF known
                                                 THEN [@ EXCEPT ![np] = new_cost]
                                                 ELSE (np :> new_cost) @@ @,
                                             !.counter = counter,
                                             !.pq = PqPut(@, Entry(priority, counter, np,
                                                                   Append(path, np)))],
                                   i + 1, current, path, env)
                      ELSE AstarNeighbours(s, i + 1, current, path, env)

\* one iteration of "while not pq.empty()"; return [] once the queue is empty
AstarStep(s, env) ==
    IF s.pq = <<>> THEN Return(s, <<>>)
    ELSE LET e == Head(s.pq)
             popped == [s EXCEPT !.pq = Tail(@)]
         IN  IF e.pos \in s.visited THEN popped
             ELSE LET marked == [popped EXCEPT !.visited = @ \cup {e.pos}]
                  IN  IF e.pos = env.goal THEN Return(marked, e.path)
                      ELSE AstarNeighbours(marked, 1, e.pos, e.path, env)

RECURSIVE AstarRun(_, _, _)
\* at most n iterations of the loop, stopping when the call returns
AstarRun(s, env, n) ==
    IF s.returned \/ n <= 0 THEN s
    ELSE IF n = 1 THEN AstarStep(s, env)
    ELSE AstarRun(AstarRun(s, env, n \div 2), env, n - (n \div 2))

AstarStart(start) ==
    [pq |-> <<Entry(0, 0, start, <<start>>)>>, counter |-> 0, visited |-> {},
     cost_so_far |-> (start :> 0), returned |-> FALSE, path |-> <<>>]

astar(start, goal, snake_positions, obstacle_positions) ==
    AstarRun(AstarStart(start), Env(goal, snake_positions, obstacle_positions),
             MaxIterations)

(***************************************************************************)
(* positions_to_directions                                                 *)
(***************************************************************************)
RECURSIVE PositionsToDirectionsStale(_, _, _, _)
\* mutant of PositionsToDirectionsFrom: current_direction is never updated
PositionsToDirectionsStale(ps, i, current_direction, directions) ==
    IF i >= Len(ps) THEN directions
    ELSE LET d == <<ps[i + 1][1] - ps[i][1], ps[i + 1][2] - ps[i][2]>>
         IN  IF reverse(current_direction) # d
             THEN PositionsToDirectionsStale(ps, i + 1, current_direction,
                                             Append(directions, d))
             ELSE PositionsToDirectionsStale(ps, i + 1, current_direction, directions)

RECURSIVE PositionsToDirectionsFrom(_, _, _, _)
\* the "for i in range(1, len(positions))" loop from index i on (1-based here:
\* ps[i] is the position the step leaves)
PositionsToDirectionsFrom(ps, i, current_direction, directions) ==
    IF i >= Len(ps) THEN directions
    ELSE LET d == <<ps[i + 1][1] - ps[i][1], ps[i + 1][2] - ps[i][2]>>
         IN  IF reverse(current_direction) # d
             THEN PositionsToDirectionsFrom(ps, i + 1, d, Append(directions, d))
             ELSE PositionsToDirectionsFrom(ps, i + 1, current_direction, directions)

positions_to_directions(ps, current_direction) ==
    PositionsToDirectionsFrom(ps, 1, current_direction, <<>>)

(***************************************************************************)
(* The inputs of a search: what search_path reads from the game.           *)
(***************************************************************************)
VARIABLES
    positions,    \* snake.positions, head first
    direction,    \* snake.direction
    food,         \* food.position
    obstacles,    \* obstacle_positions: {ob.position for ob in obstacles}
    pc,           \* which call comes next
    out,          \* the outcome of each search on the snapshot
    walk,         \* the positions handed to positions_to_directions
    chosen_path,  \* the queue of directions it produced
    length,       \* snake.length
    hasReset,     \* snake.hasReset
    nodes,        \* GameNode.nodes, the registry of used positions
    search_type,  \* player.search_type
    init_length,  \* snake.init_length
    tick,         \* what has happened in the current tick of SnakeGame.run
    plan,         \* what has happened to the path of the last search
    loop          \* the locals of a search call followed step by step

\* the state of the game loop, which a search leaves alone
game == <<length, hasReset, nodes, search_type, init_length, tick, plan, loop>>

vars == <<positions, direction, food, obstacles, pc, out, walk, chosen_path,
          length, hasReset, nodes, search_type, init_length, tick, plan, loop>>

Neighbours(c) == {next_pos(c, d) : d \in DirectionSet} \cap Cells

RECURSIVE Walks(_)
\* the bodies of at most n cells: every cell but the tail's was entered by a
\* unit step from the one behind it, and Snake.collide keeps the cells distinct
Walks(n) ==
    IF n <= 1 THEN {<<c>> : c \in Cells}
    ELSE LET shorter == Walks(n - 1)
         IN  shorter \cup
             UNION {{<<c>> \o w : c \in Neighbours(w[1]) \ SeqToSet(w)} :
                        w \in {v \in shorter : Len(v) = n - 1}}

\* what the harness keeps of a search call: whether it returned within the
\* iterations followed, the path it returned, and its local visited set
Outcome(s) == [returned |-> s.returned, path |-> s.path, visited |-> s.visited]

NotRun == [returned |-> FALSE, path |-> <<>>, visited |-> {}]

\* tick before the first tick of the game loop has begun
NoTick ==
    [ran |-> FALSE, queue0 |-> <<>>, reset0 |-> FALSE, turns |-> 0,
     searched |-> FALSE, empty |-> FALSE, search_direction |-> UP,
     turns_after_search |-> 0, followed |-> FALSE, collided |-> FALSE,
     after_empty |-> FALSE]

\* plan before the first search
NoPlan == [consumed |-> 0, body |-> 0, start_direction |-> UP]

\* the game loop is not part of a specification that only calls the searches
NoGame ==
    /\ length = Len(positions)
    /\ hasReset = FALSE
    /\ nodes = {}
    /\ search_type = "BFS"
    /\ init_length = Len(positions)
    /\ tick = NoTick
    /\ plan = NoPlan
    /\ loop = <<>>

\* the snapshots search_path can take from the game:
\*  - after a move, snake.direction is the step the head has just made;
\*  - the head enters the food's cell only to eat it (Snake.eat moves the food
\*    off the snake), so the food lies under the snake only where Snake.reset
\*    has put the snake on it, and under the head only right after the reset;
\*  - the GameNode registry keeps food and obstacles apart, except on
\*    Position(0, 0), which every new GameNode removes from the registry.
Snapshot ==
    /\ positions \in Walks(MaxBody)
    /\ direction \in DirectionSet
    /\ Len(positions) >= 2 =>
           direction = <<positions[1][1] - positions[2][1],
                         positions[1][2] - positions[2][2]>>
    /\ food \in Cells
    /\ food \in SeqToSet(positions) => food = ResetPos
    /\ food = positions[1] => Len(positions) = 1
    /\ obstacles \in {o \in SUBSET Cells : Cardinality(o) <= MaxObstacles}
    /\ food \in obstacles => food = NodeOrigin

(***************************************************************************)
(* Spec: the four searches applied in turn to one snapshot.                *)
(***************************************************************************)
Init ==
    /\ Snapshot
    /\ pc = "bfs"
    /\ out = [bfs |-> NotRun, dfs |-> NotRun, dijkstra |-> NotRun, astar |-> NotRun]
    /\ walk = <<>>
    /\ chosen_path = <<>>
    /\ NoGame

CallBfs ==
    /\ pc = "bfs"
    /\ out' = [out EXCEPT !.bfs = Outcome(bfs(positions[1], food, positions, obstacles))]
    /\ pc' = "dfs"
    /\ UNCHANGED <<positions, direction, food, obstacles, walk, chosen_path>>
    /\ UNCHANGED game

CallDfs ==
    /\ pc = "dfs"
    /\ out' = [out EXCEPT !.dfs = Outcome(dfs(positions[1], food, positions, obstacles))]
    /\ pc' = "dijkstra"
    /\ UNCHANGED <<positions, direction, food, obstacles, walk, chosen_path>>
    /\ UNCHANGED game

CallDijkstra ==
    /\ pc = "dijkstra"
    /\ out' = [out EXCEPT !.dijkstra =
                   Outcome(dijkstra(positions[1], food, positions, obstacles))]
    /\ pc' = "astar"
    /\ UNCHANGED <<positions, direction, food, obstacles, walk, chosen_path>>
    /\ UNCHANGED game

CallAstar ==
    /\ pc = "astar"
    /\ out' = [out EXCEPT !.astar =
                   Outcome(astar(positions[1], food, positions, obstacles))]
    /\ pc' = "done"
    /\ UNCHANGED <<positions, direction, food, obstacles, walk, chosen_path>>
    /\ UNCHANGED game

Next == CallBfs \/ CallDfs \/ CallDijkstra \/ CallAstar

Spec == Init /\ [][Next]_vars

(***************************************************************************)
(* TranslatorSpec: positions_to_directions applied to any sequence of      *)
(* positions whose steps are unit steps, with any current direction.       *)
(***************************************************************************)
RECURSIVE UnitWalks(_)
\* the sequences of at most n positions that start in the grid and go on by
\* unit steps; a step may go back to the position before
UnitWalks(n) ==
    IF n <= 0 THEN {<<>>}
    ELSE IF n = 1 THEN {<<>>} \cup {<<c>> : c \in Cells}
    ELSE LET shorter == UnitWalks(n - 1)
         IN  shorter \cup
             {Append(w, next_pos(w[Len(w)], d)) :
                  w \in {v \in shorter : Len(v) = n - 1}, d \in DirectionSet}

TranslatorInit ==
    /\ walk \in UnitWalks(MaxWalk)
    /\ direction \in DirectionSet
    /\ chosen_path = <<>>
    /\ pc = "translate"
    /\ positions = <<ResetPos>>
    /\ food = ResetPos
    /\ obstacles = {}
    /\ out = [bfs |-> NotRun, dfs |-> NotRun, dijkstra |-> NotRun, astar |-> NotRun]
    /\ NoGame

Translate ==
    /\ pc = "translate"
    /\ chosen_path' = positions_to_directions(walk, direction)
    /\ pc' = "translated"
    /\ UNCHANGED <<positions, direction, food, obstacles, out, walk>>
    /\ UNCHANGED game

TranslatorNext == Translate

TranslatorSpec == TranslatorInit /\ [][TranslatorNext]_vars

(***************************************************************************)
(* Reference definitions the properties are stated with.  They are not     *)
(* taken from the searches: reachability and distances are computed by     *)
(* fixpoints over the cells.                                               *)
(***************************************************************************)
\* the searches that have been applied to the snapshot
Ran ==
    CASE pc = "dfs" -> {"bfs"}
      [] pc = "dijkstra" -> {"bfs", "dfs"}
      [] pc = "astar" -> {"bfs", "dfs", "dijkstra"}
      [] pc = "done" -> {"bfs", "dfs", "dijkstra", "astar"}
      [] OTHER -> {}

\* Blocked: the cells of the snake's body other than the head
Blocked == SeqToSet(Tail1(positions))

InGrid(p) == p \in Cells

UnitStep(p, q) == <<q[1] - p[1], q[2] - p[2]>> \in DirectionSet

RECURSIVE Reach(_, _)
\* the cells of the grid reached from the cells seen by unit steps that enter
\* no cell of avoid
Reach(seen, avoid) ==
    LET more == seen \cup ((UNION {Neighbours(c) : c \in seen}) \ avoid)
    IN  IF more = seen THEN seen ELSE Reach(more, avoid)

\* some path inside the grid leads from the head to the food and enters no
\* cell of avoid
GoalReachable(avoid) == food \in Reach({positions[1]}, avoid)

RECURSIVE HopsFrom(_, _, _, _)
\* frontier: the cells at k steps from the head; -1 when the food is at no
\* number of steps
HopsFrom(frontier, seen, k, avoid) ==
    IF food \in frontier THEN k
    ELSE LET nxt == ((UNION {Neighbours(c) : c \in frontier}) \ avoid) \ seen
         IN  IF nxt = {} THEN -1 ELSE HopsFrom(nxt, seen \cup nxt, k + 1, avoid)

\* the fewest edges of a path inside the grid from the head to the food that
\* enters no cell of avoid
ShortestHops(avoid) == HopsFrom({positions[1]}, {positions[1]}, 0, avoid)

Window ==
    ((0 - Margin)..(GRID_WIDTH - 1 + Margin)) \X ((0 - Margin)..(GRID_HEIGHT - 1 + Margin))

\* cost of entering a cell: 10 for an obstacle, 1 otherwise
StepCost(c) == IF c \in obstacles THEN obstacle_cost ELSE 1

RECURSIVE PathCostFrom(_, _)
PathCostFrom(path, i) ==
    IF i > Len(path) THEN 0 ELSE StepCost(path[i]) + PathCostFrom(path, i + 1)

\* total cost of a path: the cost of every cell it enters
PathCost(path) == PathCostFrom(path, 2)

\* more than any path of distinct cells of the window costs
Unreached == obstacle_cost * Cardinality(Window) + 1

MinOf(S) == CHOOSE x \in S : \A y \in S : x <= y

RECURSIVE CheapestFrom(_)
\* Bellman-Ford rounds to the fixpoint: dist[c] is the least cost found of a
\* path inside the window from the head to c that enters no Blocked cell
CheapestFrom(dist) ==
    LET nxt == [c \in Window |->
                   IF c = positions[1] THEN 0
                   ELSE IF c \in Blocked THEN Unreached
                   ELSE MinOf({dist[c]} \cup
                              {dist[n] + StepCost(c) :
                                   n \in {next_pos(c, d) : d \in DirectionSet} \cap Window})]
    IN  IF nxt = dist THEN dist ELSE CheapestFrom(nxt)

\* the least cost of a path inside the window from the head to the food that
\* enters no Blocked cell (Unreached or more: there is none)
CheapestCost ==
    CheapestFrom([c \in Window |-> IF c = positions[1] THEN 0 ELSE Unreached])[food]

(***************************************************************************)
(* C1                                                                      *)
(***************************************************************************)
\* C1: every non-empty path returned by any of the four searches lies inside
\* the grid, and no position outside the grid is added to a search's visited
\* set.
C1_PathsAndVisitedInGrid ==
    \A a \in Ran :
        /\ \A i \in 1..Len(out[a].path) : InGrid(out[a].path[i])
        /\ \A p \in out[a].visited : InGrid(p)

(***************************************************************************)
(* C2                                                                      *)
(***************************************************************************)
\* C2: every non-empty path returned by any of the four searches starts at
\* the head, ends at the food, goes by unit steps in one of the four
\* directions, and contains no cell of the snake's body other than the head.
C2_PathWellFormed ==
    \A a \in Ran :
        LET path == out[a].path
        IN  path # <<>> =>
                /\ path[1] = positions[1]
                /\ path[Len(path)] = food
                /\ \A i \in 1..(Len(path) - 1) : UnitStep(path[i], path[i + 1])
                /\ \A i \in 1..Len(path) : path[i] \notin Blocked

\* all four searches have returned a path of several steps around a snake
\* of several cells
C2_Witness ==
    /\ pc = "done"
    /\ Len(positions) >= 3
    /\ \A a \in Ran : out[a].returned /\ Len(out[a].path) >= 4

(***************************************************************************)
(* C3                                                                      *)
(***************************************************************************)
\* C3: when no path inside the grid leads from the head to the food without
\* entering a cell of the snake's body, a search that returns, returns the
\* empty path.  (The claim says more: that the search does return.)
C3_UnreachableReturnsEmpty ==
    ~GoalReachable(Blocked) =>
        \A a \in Ran : out[a].returned => out[a].path = <<>>

C6_DijkstraCheapest ==
    (pc = "astar" /\ out.dijkstra.path # <<>>) =>
        PathCost(out.dijkstra.path) <= CheapestCost

\* dijkstra has returned a path that enters an obstacle
C6_Witness ==
    /\ pc = "astar"
    /\ out.dijkstra.path # <<>>
    /\ \E i \in 2..Len(out.dijkstra.path) : out.dijkstra.path[i] \in obstacles

(***************************************************************************)
(* C7                                                                      *)
(***************************************************************************)
\* C7: when dijkstra and astar have both returned, either both paths are
\* empty or both are not, and they cost the same; when a path exists both are
\* non-empty; when there is no obstacle the cost is the path's edge count.
C7_DijkstraAstarEqualCost ==
    (pc = "done" /\ out.dijkstra.returned /\ out.astar.returned) =>
        /\ (out.dijkstra.path = <<>>) <=> (out.astar.path = <<>>)
        /\ PathCost(out.dijkstra.path) = PathCost(out.astar.path)
        /\ GoalReachable(Blocked) => out.dijkstra.path # <<>>
        /\ (obstacles = {} /\ out.astar.path # <<>>) =>
               /\ PathCost(out.astar.path) = Len(out.astar.path) - 1
               /\ PathCost(out.dijkstra.path) = Len(out.dijkstra.path) - 1

\* dijkstra and astar have returned different paths, both longer than the
\* straight way to the food, around an obstacle
C7_Witness ==
    /\ pc = "done"
    /\ obstacles # {}
    /\ out.dijkstra.path # <<>>
    /\ out.astar.path # <<>>
    /\ out.dijkstra.path # out.astar.path
    /\ Len(out.astar.path) - 1 > heuristic(positions[1], food)

(***************************************************************************)
(* C8                                                                      *)
(***************************************************************************)
\* C8: on the same snapshot astar finalizes (adds to its visited set) no more
\* positions before it returns than dijkstra does.
C8_AstarFinalizesNoMore ==
    (pc = "done" /\ out.dijkstra.returned /\ out.astar.returned) =>
        Cardinality(out.astar.visited) <= Cardinality(out.dijkstra.visited)

\* both have returned a path and astar has finalized fewer positions
C8_Witness ==
    /\ pc = "done"
    /\ out.dijkstra.path # <<>>
    /\ out.astar.path # <<>>
    /\ Cardinality(out.astar.visited) < Cardinality(out.dijkstra.visited)

(***************************************************************************)
(* C9                                                                      *)
(***************************************************************************)
\* C9: when the head is on the food, each of the four searches returns the
\* one-element path of the head.
C9_StartIsGoal ==
    food = positions[1] =>
        \A a \in Ran : out[a].returned /\ out[a].path = <<positions[1]>>

\* the four searches have run with the head on the food and an obstacle
C9_Witness ==
    /\ pc = "done"
    /\ food = positions[1]
    /\ obstacles # {}

(***************************************************************************)
(* C10 (TranslatorSpec)                                                    *)
(***************************************************************************)
\* C10: no two consecutive entries of the queue positions_to_directions
\* produces are the reverse of each other, and its first entry is not the
\* reverse of the current direction it was given.
C10_NoReversal ==
    pc = "translated" =>
        /\ \A i \in 1..(Len(chosen_path) - 1) :
               chosen_path[i + 1] # reverse(chosen_path[i])
        /\ chosen_path # <<>> => chosen_path[1] # reverse(direction)

\* a walk of MaxWalk positions whose first step reverses the current
\* direction has been translated, and steps were left out of the queue
C10_Witness ==
    /\ pc = "translated"
    /\ Len(walk) = MaxWalk
    /\ Len(chosen_path) = 1
    /\ <<walk[2][1] - walk[1][1], walk[2][2] - walk[1][2]>> = reverse(direction)

(***************************************************************************)
(* The game: Snake, Food, Obstacle, Player.move and the loop of            *)
(* SnakeGame.run.  A tick of the loop is followed call by call; pc names   *)
(* the call that comes next.                                               *)
(***************************************************************************)
\* the init_length __main__ gives the snake: Snake(WIDTH, HEIGHT, INIT_LENGTH)
INIT_LENGTH == 4

\* Snake.eat is followed while snake.length is less than this above
\* snake.init_length
MaxGrowth == 1

SearchType == {"BFS", "DFS", "DIJKSTRA", "ASTAR"}

\* Snake.turn: the direction the snake has after turn(d)
turn(current_direction, snake_length, d) ==
    IF snake_length > 1 /\ reverse(d) = current_direction
    THEN current_direction
    ELSE d

\* mutant of collide: the grid's bounds are not tested
collideBodyOnly(snake_positions, new) == new \in SeqToSet(snake_positions)

\* Snake.collide
collide(snake_positions, new) ==
    (new \in SeqToSet(snake_positions)) \/ check_bounds(new, GRID_WIDTH, GRID_HEIGHT)

\* "while len(self.positions) > self.length: self.positions.pop()"
Trim(snake_positions, snake_length) ==
    IF Len(snake_positions) > snake_length
    THEN SubSeq(snake_positions, 1, snake_length)
    ELSE snake_positions

\* Snake.reset, as the set of snakes it can leave: random.choice picks the
\* direction
reset ==
    {[length |-> init_length, positions |-> <<ResetPos>>, direction |-> d,
      hasReset |-> TRUE] : d \in DirectionSet}

\* Snake.hit_obstacle(ob) on the snake sn, as the set of snakes it can leave
hit_obstacle(sn, ob) ==
    IF sn.positions[1] = ob
    THEN IF sn.length - 1 = 0 THEN reset ELSE {[sn EXCEPT !.length = @ - 1]}
    ELSE {sn}

RECURSIVE HitObstacles(_, _)
\* "for ob in self.obstacles: self.snake.hit_obstacle(ob)" over the obstacles
\* not yet visited; a set is iterated in an order the program does not fix
HitObstacles(sn, rest) ==
    IF rest = {} THEN {sn}
    ELSE UNION {UNION {HitObstacles(r, rest \ {ob}) : r \in hit_obstacle(sn, ob)} :
                    ob \in rest}

\* GameNode.randomize_position of a node on position own: the registries and
\* positions it can end with
randomize_position(registry, own) ==
    {[position |-> c, nodes |-> (registry \ {own}) \cup {c}] :
         c \in Cells \ (registry \ {own})}

RECURSIVE Obstacles(_)
\* Food() and the first n passes of "for _ in range(40)" in SnakeGame.__init__:
\* Obstacle() starts on Position(0, 0) and randomizes, and is randomized
\* again while it lies on an obstacle made before
Obstacles(n) ==
    IF n = 0
    THEN {[food |-> r.position, obstacles |-> {}, nodes |-> r.nodes] :
              r \in randomize_position({}, NodeOrigin)}
    ELSE UNION {{[food |-> b.food, obstacles |-> b.obstacles \cup {r.position},
                  nodes |-> r.nodes] :
                     r \in {q \in randomize_position(b.nodes, NodeOrigin) :
                                q.position \notin b.obstacles}} :
                    b \in Obstacles(n - 1)}

\* player.move(snake): TRUE when chosen_path.pop(0) raises IndexError
PlayerMoveReturns(queue) == queue = <<>>

\* mutant of Replan: the reset of the snake is not looked at
ReplanOnEmptyQueue(moved, snake_reset) == moved

\* "if self.player.move(self.snake) or self.snake.hasReset"
Replan(moved, snake_reset) == moved \/ snake_reset

\* the search search_path calls for the player's search_type
Search ==
    CASE search_type = "BFS" -> bfs(positions[1], food, positions, obstacles)
      [] search_type = "DFS" -> dfs(positions[1], food, positions, obstacles)
      [] search_type = "DIJKSTRA" -> dijkstra(positions[1], food, positions, obstacles)
      [] search_type = "ASTAR" -> astar(positions[1], food, positions, obstacles)

\* mutant of ChosenPath: a path that was not found leaves the queue as it was
ChosenPathKept(path, current_direction) ==
    IF path # <<>> THEN positions_to_directions(path, current_direction)
    ELSE <<current_direction>>

\* "if path: ... else: self.chosen_path = []" of search_path
ChosenPath(path, current_direction) ==
    IF path # <<>> THEN positions_to_directions(path, current_direction) ELSE <<>>

GameInit ==
    /\ \E n \in 0..MaxObstacles : \E b \in Obstacles(n) :
           /\ food = b.food
           /\ obstacles = b.obstacles
           /\ nodes = b.nodes
    /\ init_length \in 1..INIT_LENGTH
    /\ \E sn \in reset :
           /\ length = sn.length
           /\ positions = sn.positions
           /\ direction = sn.direction
           /\ hasReset = sn.hasReset
    /\ search_type \in SearchType
    /\ chosen_path = <<>>
    /\ walk = <<>>
    /\ pc = "poll"
    /\ tick = NoTick
    /\ plan = NoPlan
    /\ loop = <<>>
    /\ out = [bfs |-> NotRun, dfs |-> NotRun, dijkstra |-> NotRun, astar |-> NotRun]

\* line 236: the first player.move of a tick and the test of its result
Poll ==
    /\ pc = "poll"
    /\ LET moved == PlayerMoveReturns(chosen_path)
       IN  /\ IF moved
              THEN UNCHANGED <<chosen_path, direction, plan>>
              ELSE /\ chosen_path' = Tail(chosen_path)
                   /\ direction' = turn(direction, length, Head(chosen_path))
                   /\ plan' = [plan EXCEPT !.consumed = @ + 1]
           /\ tick' = [ran |-> TRUE, queue0 |-> chosen_path, reset0 |-> hasReset,
                       turns |-> IF moved THEN 0 ELSE 1,
                       searched |-> FALSE, empty |-> FALSE,
                       search_direction |-> direction',
                       turns_after_search |-> 0,
                       followed |-> ~moved, collided |-> FALSE,
                       after_empty |-> tick.searched /\ tick.empty]
           /\ pc' = IF Replan(moved, hasReset) THEN "search" ELSE "snake_move"
    /\ UNCHANGED <<positions, food, obstacles, out, walk, length, hasReset, nodes,
                   search_type, init_length, loop>>

\* line 237: player.search_path; a search that does not return within the
\* iterations followed is not followed further
SearchPath ==
    /\ pc = "search"
    /\ LET s == Search
       IN  /\ s.returned
           /\ walk' = s.path
           /\ chosen_path' = ChosenPath(s.path, direction)
           /\ tick' = [tick EXCEPT !.searched = TRUE, !.empty = (s.path = <<>>),
                                   !.search_direction = direction,
                                   !.followed = FALSE]
           /\ plan' = [consumed |-> 0, body |-> Len(positions),
                       start_direction |-> direction]
    /\ pc' = "follow"
    /\ UNCHANGED <<positions, direction, food, obstacles, out, length, hasReset,
                   nodes, search_type, init_length, loop>>

\* line 238: the player.move that follows the search
Follow ==
    /\ pc = "follow"
    /\ IF PlayerMoveReturns(chosen_path)
       THEN UNCHANGED <<chosen_path, direction, plan, tick>>
       ELSE /\ chosen_path' = Tail(chosen_path)
            /\ direction' = turn(direction, length, Head(chosen_path))
            /\ plan' = [plan EXCEPT !.consumed = @ + 1]
            /\ tick' = [tick EXCEPT !.turns = @ + 1, !.turns_after_search = @ + 1,
                                    !.followed = TRUE]
    /\ pc' = "snake_move"
    /\ UNCHANGED <<positions, food, obstacles, out, walk, length, hasReset, nodes,
                   search_type, init_length, loop>>

\* line 239: snake.move
SnakeMove ==
    /\ pc = "snake_move"
    /\ LET new == next_pos(positions[1], direction)
       IN  IF collide(positions, new)
           THEN /\ \E sn \in reset :
                       /\ length' = sn.length
                       /\ positions' = sn.positions
                       /\ direction' = sn.direction
                       /\ hasReset' = sn.hasReset
                /\ tick' = [tick EXCEPT !.collided = TRUE]
           ELSE /\ positions' = Trim(<<new>> \o positions, length)
                /\ hasReset' = FALSE
                /\ UNCHANGED <<length, direction, tick>>
    /\ pc' = "eat"
    /\ UNCHANGED <<food, obstacles, out, walk, chosen_path, nodes, search_type, init_length,
                   plan, loop>>

\* line 240: snake.eat(food); food.randomize_position is repeated while the
\* food lies on the snake
Eat ==
    /\ pc = "eat"
    /\ IF positions[1] = food
       THEN /\ length < init_length + MaxGrowth
            /\ length' = length + 1
            /\ \E r \in randomize_position(nodes, food) :
                   /\ r.position \notin SeqToSet(positions)
                   /\ food' = r.position
                   /\ nodes' = r.nodes
       ELSE UNCHANGED <<length, food, nodes>>
    /\ pc' = "hit"
    /\ UNCHANGED <<positions, direction, obstacles, out, walk, chosen_path, hasReset,
                   search_type, init_length, tick, plan, loop>>

\* lines 241-242: snake.hit_obstacle for every obstacle; the tick ends
HitAll ==
    /\ pc = "hit"
    /\ \E sn \in HitObstacles([length |-> length, positions |-> positions,
                               direction |-> direction, hasReset |-> hasReset],
                              obstacles) :
           /\ length' = sn.length
           /\ positions' = sn.positions
           /\ direction' = sn.direction
           /\ hasReset' = sn.hasReset
    /\ pc' = "poll"
    /\ UNCHANGED <<food, obstacles, out, walk, chosen_path, nodes, search_type, init_length,
                   tick, plan, loop>>

GameNext == Poll \/ SearchPath \/ Follow \/ SnakeMove \/ Eat \/ HitAll

GameSpec == GameInit /\ [][GameNext]_vars

(***************************************************************************)
(* LoopSpec: one call of dijkstra or astar on a snapshot, followed one     *)
(* iteration of its while loop at a time; loop holds the locals of the     *)
(* call.                                                                   *)
(***************************************************************************)
\* largest number of cells in snake.positions of a snapshot of LoopSpec
MaxLoopBody == 2

\* a call is followed while its counter is below this
MaxLoopCounter == 50

LoopInit ==
    /\ Snapshot
    /\ Len(positions) <= MaxLoopBody
    /\ search_type \in {"DIJKSTRA", "ASTAR"}
    /\ loop = IF search_type = "DIJKSTRA" THEN DijkstraStart(positions[1])
              ELSE AstarStart(positions[1])
    /\ pc = "loop"
    /\ out = [bfs |-> NotRun, dfs |-> NotRun, dijkstra |-> NotRun, astar |-> NotRun]
    /\ walk = <<>>
    /\ chosen_path = <<>>
    /\ length = Len(positions)
    /\ init_length = Len(positions)
    /\ hasReset = FALSE
    /\ nodes = {}
    /\ tick = NoTick
    /\ plan = NoPlan

\* one iteration of the while loop of dijkstra
DijkstraIterate ==
    /\ pc = "loop"
    /\ search_type = "DIJKSTRA"
    /\ ~loop.returned
    /\ loop.counter < MaxLoopCounter
    /\ loop' = DijkstraStep(loop, Env(food, positions, obstacles))
    /\ UNCHANGED <<positions, direction, food, obstacles, pc, out, walk, chosen_path,
                   length, hasReset, nodes, search_type, init_length, tick, plan>>

\* one iteration of the while loop of astar
AstarIterate ==
    /\ pc = "loop"
    /\ search_type = "ASTAR"
    /\ ~loop.returned
    /\ loop.counter < MaxLoopCounter
    /\ loop' = AstarStep(loop, Env(food, positions, obstacles))
    /\ UNCHANGED <<positions, direction, food, obstacles, pc, out, walk, chosen_path,
                   length, hasReset, nodes, search_type, init_length, tick, plan>>

LoopNext == DijkstraIterate \/ AstarIterate

LoopSpec == LoopInit /\ [][LoopNext]_vars

\* the counters of the entries of a priority queue
Counters(pq) == {pq[i].counter : i \in 1..Len(pq)}

\* C15: in dijkstra the entries of equal accumulated cost leave the queue in
\* the order they were put in: every entry carries its own counter, an entry
\* put in later carries a larger counter than every entry put in before, and
\* the entry that is taken next has the least cost and, among the entries of
\* that cost, the least counter; so the order of the tuples is decided by
\* cost and counter alone, never by a position or a path.
C15_DijkstraFifoAmongEqualCost ==
    [][DijkstraIterate =>
          /\ \A i, j \in 1..Len(loop.pq) :
                 i # j => loop.pq[i].counter # loop.pq[j].counter
          /\ \A i \in 2..Len(loop.pq) :
                 \/ loop.pq[1].priority < loop.pq[i].priority
                 \/ /\ loop.pq[1].priority = loop.pq[i].priority
                    /\ loop.pq[1].counter < loop.pq[i].counter
          /\ \A c \in Counters(loop.pq) : c <= loop.counter
          /\ \A c \in Counters(loop'.pq) \ Counters(loop.pq) : c > loop.counter
          /\ loop'.counter >= loop.counter]_vars

\* dijkstra is about to take an entry while an entry of the same cost that
\* was put in later waits in the queue
C15_Witness ==
    /\ pc = "loop"
    /\ search_type = "DIJKSTRA"
    /\ ~loop.returned
    /\ loop.counter < MaxLoopCounter
    /\ Len(loop.pq) >= 2
    /\ loop.pq[1].priority = loop.pq[2].priority
    /\ obstacles # {}

\* C16: in astar every position is finalized at most once: an entry taken
\* from the queue for a position that is already in visited is discarded (the
\* iteration changes nothing but the queue), and an entry taken for a position
\* that is not yet in visited finalizes that position alone and carries a path
\* whose total cost equals cost_so_far of the position.
C16_AstarFinalizesOnce ==
    [][(AstarIterate /\ loop.pq # <<>>) =>
          LET e == Head(loop.pq)
          IN  IF e.pos \in loop.visited
              THEN loop' = [loop EXCEPT !.pq = Tail(@)]
              ELSE /\ e.pos \in DOMAIN loop.cost_so_far
                   /\ PathCost(e.path) = loop.cost_so_far[e.pos]
                   /\ loop'.visited = loop.visited \cup {e.pos}]_vars

\* astar is about to take a stale entry: its position is finalized already,
\* by an entry of a cheaper path
C16_Witness ==
    /\ pc = "loop"
    /\ search_type = "ASTAR"
    /\ ~loop.returned
    /\ loop.counter < MaxLoopCounter
    /\ loop.pq # <<>>
    /\ Head(loop.pq).pos \in loop.visited
    /\ PathCost(Head(loop.pq).path) > loop.cost_so_far[Head(loop.pq).pos]

(***************************************************************************)
(* Properties of the game loop                                             *)
(***************************************************************************)
\* C11: in every tick of the game loop at most one direction is popped from
\* the direction queue and applied to the snake: snake.turn is called at most
\* once per tick, also in a tick that begins with the snake just reset and
\* the queue not empty.
C11_OneTurnPerTick == tick.turns <= 1

\* the tick has made its searches and turns: move, eat and hit_obstacle follow
Decided == tick.ran /\ pc \in {"snake_move", "eat", "hit", "poll"}

\* C12: in every tick a search is invoked if and only if the direction queue
\* was empty at the start of the tick or the snake had just been reset; in a
\* tick without a search the queue changes only by the removal of its front
\* element; a search replaces the whole queue by the translation of the path
\* it has computed (of which the same tick then removes the front element).
C12_SearchIffEmptyOrReset ==
    /\ Decided => (tick.searched <=> (tick.queue0 = <<>> \/ tick.reset0))
    /\ (Decided /\ ~tick.searched) => chosen_path = Tail(tick.queue0)
    /\ (tick.ran /\ pc = "follow") =>
           chosen_path = IF walk = <<>> THEN <<>>
                         ELSE positions_to_directions(walk, direction)
    /\ (Decided /\ tick.searched) =>
           LET queue == IF walk = <<>> THEN <<>>
                        ELSE positions_to_directions(walk, tick.search_direction)
           IN  chosen_path = IF queue = <<>> THEN <<>> ELSE Tail(queue)

\* a tick has ended in which the snake had just been reset, the queue still
\* held directions, and a search has replaced them by a new queue
C12_Witness ==
    /\ pc = "poll"
    /\ tick.ran
    /\ tick.reset0
    /\ tick.queue0 # <<>>
    /\ tick.searched
    /\ chosen_path # <<>>

\* C13: when a search returns the empty path the direction queue is left
\* empty, no direction is applied to the snake from the search to the end of
\* the tick (the snake moves in the direction it had when the search was
\* called), and the next tick calls the search again.
C13_EmptyPathHoldsDirection ==
    /\ (tick.ran /\ tick.searched /\ tick.empty /\ pc # "search") =>
           /\ chosen_path = <<>>
           /\ tick.turns_after_search = 0
    /\ (tick.ran /\ tick.searched /\ tick.empty /\ pc = "snake_move") =>
           direction = tick.search_direction
    /\ (Decided /\ tick.after_empty) => tick.searched

\* a tick has ended whose search returned the empty path, as did the search
\* of the tick before it, with the snake moved in between
C13_Witness ==
    /\ pc = "poll"
    /\ tick.ran
    /\ tick.after_empty
    /\ tick.searched
    /\ tick.empty
    /\ ~tick.collided
    /\ Len(positions) >= 2

\* C14: for every non-empty path a search returns, the queue made of it by
\* positions_to_directions has exactly one entry per edge of the path, and
\* consuming it one direction per tick moves the head through the positions
\* of the path in order: after the move of a tick that has popped the k-th
\* direction of the queue the head is on the (k+1)-th position of the path.
C14_QueueFollowsPath ==
    /\ (tick.ran /\ pc = "follow" /\ walk # <<>>) =>
           Len(chosen_path) = Len(walk) - 1
    /\ (tick.ran /\ pc = "eat" /\ tick.followed /\ walk # <<>>) =>
           /\ plan.consumed + 1 <= Len(walk)
           /\ positions[1] = walk[plan.consumed + 1]

\* the tick has popped a direction of the queue of a non-empty path that BFS
\* or DFS computed while snake.positions held at least two cells, and the
\* snake has made the move of the tick
FollowedBodyPlan ==
    /\ search_type \in {"BFS", "DFS"}
    /\ tick.ran
    /\ tick.followed
    /\ plan.body >= 2
    /\ walk # <<>>
    /\ pc \in {"eat", "hit", "poll"}

C18_SnakeWellFormed ==
    pc = "poll" =>
        /\ length >= 1
        /\ positions # <<>>
        /\ \A i \in 1..Len(positions) : positions[i] \in Cells
        /\ \A i, j \in 1..Len(positions) : i # j => positions[i] # positions[j]

\* a tick has ended in which the snake moved without a collision onto an
\* obstacle and hit_obstacle, taking the last of its length, has reset it
C18_Witness ==
    /\ pc = "poll"
    /\ tick.ran
    /\ ~tick.collided
    /\ hasReset
    /\ length = init_length
    /\ positions = <<ResetPos>>

====
